---- MODULE Spec2Model ----
(***************************************************************************)
(* Model of the polite crawl scheduling code of the scraper:               *)
(* src/utils/rate-limiter.js (RateLimiter) run on the single-threaded      *)
(* JavaScript event loop.  A call of RateLimiter.execute is a process that *)
(* only loses control at an `await`; everything between two awaits is one  *)
(* atomic step.  Time is in milliseconds, as returned by Date.now().       *)
(***************************************************************************)
EXTENDS Integers, Sequences, FiniteSets, TLC

(***************************************************************************)
(* Bounds of the model.                                                    *)
(***************************************************************************)
\* number of top-level execute calls made on the limiter
NumCalls == 2
\* the clock advances in poll-sized steps up to this instant, after which
\* it only moves from timer to timer
MaxTime == 400
\* value of Date.now() when the limiter is constructed
Epoch == 100

Calls == 1..NumCalls

\* the isAllowed calls made on the robots checker
NumLookups == 3
Lookups == 1..NumLookups

(***************************************************************************)
(* URLs.  A well-formed URL is a record of the parts `new URL(url)`        *)
(* yields; a string that `new URL` rejects is the record [valid |-> FALSE].*)
(***************************************************************************)
MkUrl(protocol, hostname, port, path) ==
    [valid |-> TRUE, protocol |-> protocol, hostname |-> hostname,
     port |-> port, path |-> path]

BadUrl == [valid |-> FALSE]

Urls ==
    { MkUrl("https:", "a.com", "", "/x"),
      MkUrl("http:", "a.com", "8080", "/y"),
      MkUrl("https:", "b.com", "", "/"),
      BadUrl }

\* RateLimiter.getDomain: the hostname, or 'unknown' when new URL throws
getDomain(url) == IF url.valid THEN url.hostname ELSE "unknown"

(***************************************************************************)
(* JavaScript Map: a function whose DOMAIN is the set of keys present.     *)
(***************************************************************************)
EmptyMap == [k \in {} |-> 0]

MapHas(m, k) == k \in DOMAIN m

MapSet(m, k, v) == [x \in (DOMAIN m) \cup {k} |-> IF x = k THEN v ELSE m[x]]

\* `m.get(k) || dflt` for a map of numbers (undefined and 0 are falsy)
GetOr(m, k, dflt) == IF MapHas(m, k) /\ m[k] # 0 THEN m[k] ELSE dflt

(***************************************************************************)
(* Error messages are sequences of characters, so that String.includes and *)
(* the /(\d{3})/ match of shouldRetry are computed as the code does.       *)
(***************************************************************************)
MsgHttp503 == <<"H", "T", "T", "P", " ", "5", "0", "3">>
MsgHttp404 == <<"H", "T", "T", "P", " ", "4", "0", "4">>
MsgHttp429 == <<"H", "T", "T", "P", " ", "4", "2", "9">>
MsgTimeout == <<"t", "i", "m", "e", "o", "u", "t">>
MsgReset   == <<"E", "C", "O", "N", "N", "R", "E", "S", "E", "T">>
MsgEtimedout == <<"E", "T", "I", "M", "E", "D", "O", "U", "T">>
MsgUnknown == <<"H", "T", "T", "P", " ", "u", "n", "k", "n", "o", "w", "n">>

MkError(msg) == [message |-> msg]

\* the errors the unit of work fn may throw
FnErrors == { MkError(MsgHttp503), MkError(MsgHttp404), MkError(MsgTimeout) }

\* the value a successful fn resolves with
Payload == "payload"

Includes(msg, pat) ==
    \E i \in 1..(Len(msg) - Len(pat) + 1) : SubSeq(msg, i, i + Len(pat) - 1) = pat

Digits == {"0", "1", "2", "3", "4", "5", "6", "7", "8", "9"}

DigitVal(ch) ==
    CASE ch = "0" -> 0 [] ch = "1" -> 1 [] ch = "2" -> 2 [] ch = "3" -> 3
      [] ch = "4" -> 4 [] ch = "5" -> 5 [] ch = "6" -> 6 [] ch = "7" -> 7
      [] ch = "8" -> 8 [] ch = "9" -> 9

\* positions where three consecutive digits start
StatusPositions(msg) ==
    { i \in 1..(Len(msg) - 2) :
        msg[i] \in Digits /\ msg[i + 1] \in Digits /\ msg[i + 2] \in Digits }

Min(S) == CHOOSE x \in S : \A y \in S : x <= y

\* parseInt of the first match of /(\d{3})/ ; only used when a match exists
StatusOf(msg) ==
    LET i == Min(StatusPositions(msg))
    IN  100 * DigitVal(msg[i]) + 10 * DigitVal(msg[i + 1]) + DigitVal(msg[i + 2])

\* RateLimiter.shouldRetry
shouldRetry(error) ==
    IF Includes(error.message, MsgTimeout) THEN TRUE
    ELSE IF Includes(error.message, MsgReset) THEN TRUE
    ELSE IF Includes(error.message, MsgEtimedout) THEN TRUE
    ELSE IF StatusPositions(error.message) # {}
         THEN StatusOf(error.message) = 429 \/ StatusOf(error.message) >= 500
         ELSE FALSE

(***************************************************************************)
(* Construction.  An option that is absent (undefined) or 0 is falsy and   *)
(* is replaced by the default of the constructor.                          *)
(***************************************************************************)
DefaultConcurrency == 3
DefaultPerDomainConcurrency == 1
DefaultRequestDelay == 2000
DefaultMaxRetries == 3
DefaultBackoffBase == 2

\* `options.k || dflt`
OptOr(options, k, dflt) ==
    IF k \in DOMAIN options /\ options[k] # 0 THEN options[k] ELSE dflt

\* the option objects the limiter is constructed with
MkOptions(c, p, r, m, b) ==
    [concurrency |-> c, perDomainConcurrency |-> p, requestDelay |-> r,
     maxRetries |-> m, backoffBase |-> b]

\* `new RateLimiter()`: every option undefined
NoOptions == [k \in {} |-> 0]

OptionSets ==
    { MkOptions(1, 1, 100, 2, 2),
      MkOptions(1, 2, 200, 2, 1),
      MkOptions(2, 1, 100, 1, 2),
      MkOptions(2, 2, 200, 1, 1),
      NoOptions }

RECURSIVE Pow(_, _)
Pow(b, e) == IF e = 0 THEN 1 ELSE b * Pow(b, e - 1)

\* interval of the admission polls: sleep(100)
PollInterval == 100

VARIABLES
    globalConcurrency, perDomainConcurrency, requestDelay, maxRetries,
    backoffBase,            \* fields set by the constructor
    configured,             \* the options object the constructor was given
    domainActive,           \* Map domain -> active count
    lastRequestTime,        \* Map domain -> Date.now() of the last admission
    globalActive,           \* active count over all domains
    now,                    \* Date.now()
    pc,                     \* where each execute call is suspended
    url,                    \* the url argument of each call
    attempt,                \* the attempt argument of the call's current frame
    due,                    \* expiry of the timer the call sleeps on
    fnCalls,                \* how often the call has invoked fn
    fnFails,                \* how often fn has thrown in the call
    caught,                 \* the error bound in the catch block of the current frame
    waits,                  \* the backoff delays the call has slept, in order
    outcome,                \* what the call's promise settled with
    robotsCache,            \* RobotsChecker.robotsCache: Map domain -> parser
    fetchCount,             \* Map domain -> robots.txt requests issued so far
    lpc,                    \* where each isAllowed call is suspended
    lurl,                   \* the url argument of each isAllowed call
    lresp,                  \* what the robots.txt request of the call was answered with
    lverdict,               \* what the isAllowed call resolved with
    clears,                 \* number of clearCache calls made so far
    urls,                   \* the argument of scrapeUrls
    results,                \* the results array of scrapeUrls
    idx,                    \* position in urls of the iteration of the for loop
    stats,                  \* what the last call of Scraper.getStats returned
    probe,                  \* an error handed to shouldRetry
    verdict                 \* what shouldRetry returned for it

config == <<globalConcurrency, perDomainConcurrency, requestDelay, maxRetries, backoffBase, configured>>
counters == <<domainActive, lastRequestTime, globalActive>>
callVars == <<pc, url, attempt, due, fnCalls, fnFails, caught, waits, outcome>>
robotsVars == <<robotsCache, fetchCount, lpc, lurl, lresp, lverdict, clears>>
scrapeVars == <<urls, results, idx, stats>>
classifyVars == <<probe, verdict>>
vars == <<config, counters, now, callVars, robotsVars, scrapeVars, classifyVars>>

Pending == [kind |-> "pending"]
Returned(v) == [kind |-> "returned", value |-> v]
Thrown(e) == [kind |-> "thrown", error |-> e]
NoError == [none |-> TRUE]

\* RateLimiter.constructor
Construct(options) ==
    /\ configured = options
    /\ globalConcurrency = OptOr(options, "concurrency", DefaultConcurrency)
    /\ perDomainConcurrency = OptOr(options, "perDomainConcurrency", DefaultPerDomainConcurrency)
    /\ requestDelay = OptOr(options, "requestDelay", DefaultRequestDelay)
    /\ maxRetries = OptOr(options, "maxRetries", DefaultMaxRetries)
    /\ backoffBase = OptOr(options, "backoffBase", DefaultBackoffBase)
    /\ domainActive = EmptyMap
    /\ lastRequestTime = EmptyMap
    /\ globalActive = 0

\* no execute call has been made yet
CallsIdle ==
    /\ now = Epoch
    /\ pc = [c \in Calls |-> "idle"]
    /\ url = [c \in Calls |-> BadUrl]
    /\ attempt = [c \in Calls |-> 0]
    /\ due = [c \in Calls |-> 0]
    /\ fnCalls = [c \in Calls |-> 0]
    /\ fnFails = [c \in Calls |-> 0]
    /\ caught = [c \in Calls |-> NoError]
    /\ waits = [c \in Calls |-> <<>>]
    /\ outcome = [c \in Calls |-> Pending]

NoResponse == [kind |-> "none"]
NoVerdict == "pending"

\* RobotsChecker.constructor (the singleton of the module): an empty cache,
\* and no isAllowed call made yet
RobotsIdle ==
    /\ robotsCache = EmptyMap
    /\ fetchCount = EmptyMap
    /\ lpc = [l \in Lookups |-> "idle"]
    /\ lurl = [l \in Lookups |-> BadUrl]
    /\ lresp = [l \in Lookups |-> NoResponse]
    /\ lverdict = [l \in Lookups |-> NoVerdict]
    /\ clears = 0

\* getStats has not been called
NoStats == [none |-> TRUE]

\* scrapeUrls has not been called
ScrapeIdle ==
    /\ urls = <<>>
    /\ results = <<>>
    /\ idx = 1
    /\ stats = NoStats

\* shouldRetry has not been called
ClassifyIdle ==
    /\ probe = NoError
    /\ verdict = "none"

Init ==
    /\ \E options \in OptionSets : Construct(options)
    /\ CallsIdle
    /\ RobotsIdle
    /\ ScrapeIdle
    /\ ClassifyIdle

(***************************************************************************)
(* The pieces of RateLimiter.execute.                                      *)
(***************************************************************************)
\* a backoff that grows linearly with the attempt instead of exponentially
calculateBackoffLinear(a) == requestDelay * backoffBase * a

\* RateLimiter.calculateBackoff
calculateBackoff(a) == requestDelay * Pow(backoffBase, a)

\* RateLimiter.canRequestDomain
canRequestDomain(domain) == GetOr(domainActive, domain, 0) < perDomainConcurrency

\* the while condition of the global wait loop
globalLimitReached == globalActive >= globalConcurrency

\* enforceDelay: TRUE when it sleeps, i.e. lastTime is truthy and
\* elapsed < requestDelay
delayNeeded(domain) ==
    /\ MapHas(lastRequestTime, domain)
    /\ lastRequestTime[domain] # 0
    /\ now - lastRequestTime[domain] < requestDelay

\* the test with an off-by-one limit: attempt <= maxRetries
retryAllowedOffByOne(a, error) == a <= maxRetries /\ shouldRetry(error)

\* the test without the classification of the error
retryAllowedAnyError(a, error) == a < maxRetries

\* the catch block's test: attempt < maxRetries && shouldRetry(error)
retryAllowed(a, error) == a < maxRetries /\ shouldRetry(error)

\* Where a call suspends next, as [pc, due].  execute runs synchronously
\* from one await to the next: from `await this.enforceDelay(domain)` ...
FromEnforceDelay(domain) ==
    IF delayNeeded(domain)
    THEN [pc |-> "delaySleep",
          due |-> now + (requestDelay - (now - lastRequestTime[domain]))]
    ELSE [pc |-> "admit", due |-> 0]

\* ... from the head of the domain wait loop ...
FromDomainLoop(domain) ==
    IF ~canRequestDomain(domain)
    THEN [pc |-> "waitDomain", due |-> now + PollInterval]
    ELSE FromEnforceDelay(domain)

\* ... and from the head of the global wait loop (the entry of execute).
FromGlobalLoop(domain) ==
    IF globalLimitReached
    THEN [pc |-> "waitGlobal", due |-> now + PollInterval]
    ELSE FromDomainLoop(domain)

\* the increments without globalActive++
IncrementDomainOnly(domain) ==
    /\ UNCHANGED globalActive
    /\ domainActive' = MapSet(domainActive, domain, GetOr(domainActive, domain, 0) + 1)
    /\ lastRequestTime' = MapSet(lastRequestTime, domain, now)

\* the increments of execute
Increment(domain) ==
    /\ globalActive' = globalActive + 1
    /\ domainActive' = MapSet(domainActive, domain, GetOr(domainActive, domain, 0) + 1)
    /\ lastRequestTime' = MapSet(lastRequestTime, domain, now)

\* a finally block without globalActive--
ReleaseDomainOnly(domain) ==
    /\ UNCHANGED globalActive
    /\ domainActive' = MapSet(domainActive, domain, GetOr(domainActive, domain, 1) - 1)
    /\ UNCHANGED lastRequestTime

\* the finally block of execute
Release(domain) ==
    /\ globalActive' = globalActive - 1
    /\ domainActive' = MapSet(domainActive, domain, GetOr(domainActive, domain, 1) - 1)
    /\ UNCHANGED lastRequestTime

(***************************************************************************)
(* The event loop.  A continuation that follows an await of an already     *)
(* settled promise is a microtask: it runs before any timer callback.      *)
(* Timers fire in the order of their expiry, never early.                  *)
(***************************************************************************)
SleepPcs == {"waitGlobal", "waitDomain", "delaySleep", "backoff"}

Sleepers == { c \in Calls : pc[c] \in SleepPcs }

MicrotaskPending == \E c \in Calls : pc[c] = "admit"

TimerFires(c) ==
    /\ pc[c] \in SleepPcs
    /\ ~MicrotaskPending
    /\ now >= due[c]
    /\ \A d \in Sleepers : due[d] >= due[c]

Suspend(c, next) ==
    /\ pc' = [pc EXCEPT ![c] = next.pc]
    /\ due' = [due EXCEPT ![c] = next.due]

\* execute(u, fn) is invoked as call c: it runs up to its first await
Enter(c, u) ==
    /\ pc[c] = "idle"
    /\ url' = [url EXCEPT ![c] = u]
    /\ Suspend(c, FromGlobalLoop(getDomain(u)))
    /\ UNCHANGED <<robotsVars, scrapeVars, classifyVars, config, counters, now, attempt, fnCalls, fnFails, caught, waits, outcome>>

\* a caller invokes execute(u, fn); the calls are numbered in the order
\* they are made
Start(c, u) ==
    /\ \A b \in Calls : b < c => pc[b] # "idle"
    /\ Enter(c, u)

\* the sleep(100) of the global wait loop expires
WakeGlobal(c) ==
    /\ pc[c] = "waitGlobal"
    /\ TimerFires(c)
    /\ Suspend(c, FromGlobalLoop(getDomain(url[c])))
    /\ UNCHANGED <<robotsVars, scrapeVars, classifyVars, config, counters, now, url, attempt, fnCalls, fnFails, caught, waits, outcome>>

\* the sleep(100) of the domain wait loop expires
WakeDomain(c) ==
    /\ pc[c] = "waitDomain"
    /\ TimerFires(c)
    /\ Suspend(c, FromDomainLoop(getDomain(url[c])))
    /\ UNCHANGED <<robotsVars, scrapeVars, classifyVars, config, counters, now, url, attempt, fnCalls, fnFails, caught, waits, outcome>>

\* the sleep of enforceDelay expires; enforceDelay returns
WakeDelay(c) ==
    /\ pc[c] = "delaySleep"
    /\ TimerFires(c)
    /\ Suspend(c, [pc |-> "admit", due |-> 0])
    /\ UNCHANGED <<robotsVars, scrapeVars, classifyVars, config, counters, now, url, attempt, fnCalls, fnFails, caught, waits, outcome>>

\* execute resumes after `await this.enforceDelay(domain)`: it increments
\* the counters, records the time and invokes fn
Admit(c) ==
    LET domain == getDomain(url[c]) IN
    /\ pc[c] = "admit"
    /\ Increment(domain)
    /\ fnCalls' = [fnCalls EXCEPT ![c] = @ + 1]
    /\ pc' = [pc EXCEPT ![c] = "fn"]
    /\ UNCHANGED <<robotsVars, scrapeVars, classifyVars, config, now, url, attempt, due, fnFails, caught, waits, outcome>>

\* fn resolves with v: `return result`, then the finally block
FnReturnWith(c, v) ==
    /\ pc[c] = "fn"
    /\ outcome' = [outcome EXCEPT ![c] = Returned(v)]
    /\ pc' = [pc EXCEPT ![c] = "done"]
    /\ Release(getDomain(url[c]))
    /\ UNCHANGED <<robotsVars, scrapeVars, classifyVars, config, now, url, attempt, due, fnCalls, fnFails, caught, waits>>

FnReturn(c) == FnReturnWith(c, Payload)

\* fn rejects with error e: the catch block
FnThrow(c, e) ==
    /\ pc[c] = "fn"
    /\ fnFails' = [fnFails EXCEPT ![c] = @ + 1]
    /\ caught' = [caught EXCEPT ![c] = e]
    /\ IF retryAllowed(attempt[c], e)
       THEN \* await this.sleep(backoffDelay), the slot still held
            /\ waits' = [waits EXCEPT ![c] = Append(@, calculateBackoff(attempt[c]))]
            /\ Suspend(c, [pc |-> "backoff", due |-> now + calculateBackoff(attempt[c])])
            /\ UNCHANGED <<counters, outcome>>
       ELSE \* throw error, then the finally block
            /\ outcome' = [outcome EXCEPT ![c] = Thrown(e)]
            /\ pc' = [pc EXCEPT ![c] = "done"]
            /\ Release(getDomain(url[c]))
            /\ UNCHANGED <<due, waits>>
    /\ UNCHANGED <<robotsVars, scrapeVars, classifyVars, config, now, url, attempt, fnCalls>>

\* the recursive call made with the attempt number unchanged
RetryWakeSameAttempt(c) ==
    /\ pc[c] = "backoff"
    /\ TimerFires(c)
    /\ caught' = [caught EXCEPT ![c] = NoError]
    /\ Suspend(c, FromGlobalLoop(getDomain(url[c])))
    /\ Release(getDomain(url[c]))
    /\ UNCHANGED <<robotsVars, scrapeVars, classifyVars, config, now, url, attempt, fnCalls, fnFails, waits, outcome>>

\* the recursive call awaited inside the try block: the finally block of
\* the failed attempt does not run before the retry
RetryWakeKeepsSlot(c) ==
    /\ pc[c] = "backoff"
    /\ TimerFires(c)
    /\ attempt' = [attempt EXCEPT ![c] = @ + 1]
    /\ caught' = [caught EXCEPT ![c] = NoError]
    /\ Suspend(c, FromGlobalLoop(getDomain(url[c])))
    /\ UNCHANGED <<robotsVars, scrapeVars, classifyVars, config, counters, now, url, fnCalls, fnFails, waits, outcome>>

\* a retry that invokes fn again without passing the wait loops and
\* enforceDelay
RetryWakeDirect(c) ==
    /\ pc[c] = "backoff"
    /\ TimerFires(c)
    /\ attempt' = [attempt EXCEPT ![c] = @ + 1]
    /\ caught' = [caught EXCEPT ![c] = NoError]
    /\ Suspend(c, [pc |-> "admit", due |-> 0])
    /\ Release(getDomain(url[c]))
    /\ UNCHANGED <<robotsVars, scrapeVars, classifyVars, config, now, url, fnCalls, fnFails, waits, outcome>>

\* the backoff sleep expires: `return this.execute(url, fn, attempt + 1)`.
\* The inner call runs up to its first await while the outer frame still
\* holds its slot; then the outer frame's finally block releases it.
RetryWake(c) ==
    /\ pc[c] = "backoff"
    /\ TimerFires(c)
    /\ attempt' = [attempt EXCEPT ![c] = @ + 1]
    /\ caught' = [caught EXCEPT ![c] = NoError]
    /\ Suspend(c, FromGlobalLoop(getDomain(url[c])))
    /\ Release(getDomain(url[c]))
    /\ UNCHANGED <<robotsVars, scrapeVars, classifyVars, config, now, url, fnCalls, fnFails, waits, outcome>>

\* time passes
TickPoll ==
    /\ ~MicrotaskPending
    /\ now < MaxTime
    /\ now' = now + PollInterval
    /\ UNCHANGED <<robotsVars, scrapeVars, classifyVars, config, counters, callVars>>

\* every call in progress is asleep: the clock moves to the next timer
TickJump ==
    /\ Sleepers # {}
    /\ \A c \in Calls : pc[c] \notin {"admit", "fn"}
    /\ \A c \in Sleepers : due[c] > now
    /\ now' = Min({ due[c] : c \in Sleepers })
    /\ UNCHANGED <<robotsVars, scrapeVars, classifyVars, config, counters, callVars>>

Next ==
    \/ \E c \in Calls, u \in Urls : Start(c, u)
    \/ \E c \in Calls : WakeGlobal(c)
    \/ \E c \in Calls : WakeDomain(c)
    \/ \E c \in Calls : WakeDelay(c)
    \/ \E c \in Calls : Admit(c)
    \/ \E c \in Calls : FnReturn(c)
    \/ \E c \in Calls, e \in FnErrors : FnThrow(c, e)
    \/ \E c \in Calls : RetryWake(c)
    \/ TickPoll
    \/ TickJump

Spec == Init /\ [][Next]_vars

\* the event loop runs a continuation or a timer callback that is ready,
\* every fn settles, and every call the program makes is made
SpecFair == Spec /\ WF_vars(Next)

(***************************************************************************)
(* Limiters constructed with options at the edge of their ranges: a limit  *)
(* of 0 or below, no retries, no spacing.                                  *)
(***************************************************************************)
EdgeOptionSets ==
    { MkOptions(0, 1, 100, 1, 1),
      MkOptions(1, -1, 100, 1, 1),
      MkOptions(1, 1, 100, 0, 1),
      MkOptions(1, 1, 0, 1, 1) }

InitEdge ==
    /\ \E options \in EdgeOptionSets : Construct(options)
    /\ CallsIdle
    /\ RobotsIdle
    /\ ScrapeIdle
    /\ ClassifyIdle

\* the instant after which a call that still polls is no longer followed
Horizon == 20000

\* the clock moves to the next timer, up to the horizon
TickJumpToHorizon ==
    /\ TickJump
    /\ now' <= Horizon

NextEdge ==
    \/ \E c \in Calls, u \in Urls : Start(c, u)
    \/ \E c \in Calls : WakeGlobal(c)
    \/ \E c \in Calls : WakeDomain(c)
    \/ \E c \in Calls : WakeDelay(c)
    \/ \E c \in Calls : Admit(c)
    \/ \E c \in Calls : FnReturn(c)
    \/ \E c \in Calls, e \in FnErrors : FnThrow(c, e)
    \/ \E c \in Calls : RetryWake(c)
    \/ TickPoll
    \/ TickJumpToHorizon

SpecEdge == InitEdge /\ [][NextEdge]_vars

(***************************************************************************)
(* Properties of RateLimiter.execute.                                      *)
(***************************************************************************)
\* the calls that have incremented the counters and not yet run finally
Holders == { c \in Calls : pc[c] \in {"fn", "backoff"} }

HoldersOf(domain) == { c \in Holders : getDomain(url[c]) = domain }

Settled(c) == pc[c] = "done"

\* call c takes the step that increments the counters
Admitting(c) == pc[c] = "admit" /\ pc'[c] = "fn"

\* C1: globalActive never exceeds the configured globalConcurrency.
C1_GlobalLimit == globalActive <= globalConcurrency

\* C2: the active count of every domain never exceeds perDomainConcurrency.
C2_DomainLimit ==
    \A d \in DOMAIN domainActive : domainActive[d] <= perDomainConcurrency

\* C3: two consecutive admissions of one domain are at least requestDelay
\* milliseconds apart.
C3_Spacing ==
    [][\A c \in Calls :
         (Admitting(c) /\ MapHas(lastRequestTime, getDomain(url[c])))
            => now - lastRequestTime[getDomain(url[c])] >= requestDelay]_vars

\* C4: every admission is matched by exactly one release on every exit
\* path: the counters count exactly the calls between their increment and
\* their finally block, and are 0 once every call made has settled.
C4_ReleaseOnEveryExit ==
    /\ globalActive = Cardinality(Holders)
    /\ \A d \in DOMAIN domainActive : domainActive[d] = Cardinality(HoldersOf(d))
    /\ (\A c \in Calls : pc[c] \in {"idle", "done"})
          => /\ globalActive = 0
             /\ \A d \in DOMAIN domainActive : domainActive[d] = 0

\* both calls have settled, one after exhausting its retries, the other
\* after a retry that succeeded
C4_Witness ==
    /\ \A c \in Calls : Settled(c)
    /\ \E c \in Calls : outcome[c].kind = "thrown" /\ attempt[c] = maxRetries
    /\ \E c \in Calls : outcome[c].kind = "returned" /\ attempt[c] >= 1
    /\ globalActive = 0

\* C5: globalActive and every entry of domainActive are never negative.
C5_NonNegative ==
    /\ globalActive >= 0
    /\ \A d \in DOMAIN domainActive : domainActive[d] >= 0

\* a release has brought a domain's count and the global count back to 0
\* while another call is still waiting to be admitted
C5_Witness ==
    /\ globalActive = 0
    /\ \E c \in Calls :
         /\ Settled(c)
         /\ MapHas(domainActive, getDomain(url[c]))
         /\ domainActive[getDomain(url[c])] = 0
    /\ \E c \in Calls : pc[c] \in SleepPcs

\* C6: whenever a call increments the counters, the three admission
\* conditions hold at that moment.
C6_AdmissionAtomic ==
    [][\A c \in Calls :
         Admitting(c)
            => /\ ~globalLimitReached
               /\ canRequestDomain(getDomain(url[c]))
               /\ ~delayNeeded(getDomain(url[c]))]_vars

\* C7: fn is invoked at most maxRetries + 1 times, once per attempt; a
\* backoff wait only follows a failure at an attempt below maxRetries; a
\* retryable error is propagated only from attempt maxRetries, and it is
\* the last error fn threw.
C7_BoundedRetries ==
    \A c \in Calls :
        /\ fnCalls[c] <= maxRetries + 1
        /\ pc[c] \in {"fn", "backoff", "done"} => fnCalls[c] = attempt[c] + 1
        /\ pc[c] = "backoff"
              => attempt[c] < maxRetries /\ Len(waits[c]) = attempt[c] + 1
        /\ (Settled(c) /\ outcome[c].kind = "thrown" /\ shouldRetry(outcome[c].error))
              => /\ attempt[c] = maxRetries
                 /\ fnCalls[c] = maxRetries + 1
                 /\ Len(waits[c]) = maxRetries
                 /\ outcome[c].error = caught[c]

\* a call has thrown a retryable error after maxRetries + 1 invocations of
\* fn while the other call is waiting to run its second attempt
C7_Witness ==
    /\ \E c \in Calls :
         /\ Settled(c)
         /\ outcome[c].kind = "thrown"
         /\ shouldRetry(outcome[c].error)
         /\ fnCalls[c] = maxRetries + 1
    /\ \E c \in Calls : pc[c] = "backoff" /\ attempt[c] = 0

\* C8: a fatal error of fn is propagated at once: the call never sleeps a
\* backoff for it and never invokes fn again, whatever maxRetries is.
C8_FatalNoRetry ==
    \A c \in Calls :
        /\ pc[c] = "backoff" => shouldRetry(caught[c])
        /\ (caught[c] # NoError /\ ~shouldRetry(caught[c]))
              => /\ Settled(c)
                 /\ outcome[c] = Thrown(caught[c])
                 /\ fnCalls[c] = attempt[c] + 1
                 /\ Len(waits[c]) = attempt[c]

\* with maxRetries = 3, fn failed with HTTP 404 on the first attempt and
\* the call has thrown it after that single invocation
C8_Witness ==
    \E c \in Calls :
        /\ maxRetries = 3
        /\ Settled(c)
        /\ outcome[c] = Thrown(MkError(MsgHttp404))
        /\ fnCalls[c] = 1
        /\ waits[c] = <<>>

C10_BackoffSchedule ==
    \A c \in Calls :
        /\ \A i \in 1..Len(waits[c]) :
              waits[c][i] = requestDelay * Pow(backoffBase, i - 1)
        /\ (/\ requestDelay = 2000 /\ backoffBase = 2 /\ maxRetries = 3
            /\ Settled(c) /\ outcome[c] = Thrown(MkError(MsgHttp503)))
              => waits[c] = <<2000, 4000, 8000>> /\ fnCalls[c] = 4

\* the default limiter has thrown HTTP 503 after the waits 2000, 4000, 8000
C10_Witness ==
    \E c \in Calls :
        /\ requestDelay = 2000 /\ backoffBase = 2 /\ maxRetries = 3
        /\ Settled(c)
        /\ outcome[c] = Thrown(MkError(MsgHttp503))
        /\ waits[c] = <<2000, 4000, 8000>>
        /\ fnCalls[c] = 4


(***************************************************************************)
(* Error classification.  shouldRetry sees only the message of an error;   *)
(* what the error is (its kind) is carried beside the message, so that the *)
(* classification by text can be compared with the classification by kind. *)
(***************************************************************************)
DigitChars == <<"0", "1", "2", "3", "4", "5", "6", "7", "8", "9">>

\* the decimal digits of a natural number, as a template literal prints it
RECURSIVE ToDigits(_)
ToDigits(n) ==
    IF n < 10 THEN <<DigitChars[n + 1]>>
    ELSE ToDigits(n \div 10) \o <<DigitChars[(n % 10) + 1]>>

\* `HTTP ${status || 'unknown'}`
HttpMessage(status) ==
    IF status = 0 THEN MsgUnknown
    ELSE <<"H", "T", "T", "P", " ">> \o ToDigits(status)

\* the statuses the page function raises an error for: none (0) or >= 400
HttpStatuses == {0} \cup (400..599)

\* the navigation timeout of the page, options.timeout || TIMEOUT_MS || 30000
DefaultTimeout == 30000
PageTimeouts == {5000, DefaultTimeout}

\* the message of the timeout error of page.goto(url, {timeout})
GotoTimeoutMessage(ms) ==
    <<"T", "i", "m", "e", "o", "u", "t", " ">> \o ToDigits(ms)
        \o <<"m", "s", " ", "e", "x", "c", "e", "e", "d", "e", "d">>

MsgInvalidUrl == <<"I", "n", "v", "a", "l", "i", "d", " ", "U", "R", "L">>

MkKindError(kind, status, msg) == [kind |-> kind, status |-> status, message |-> msg]

\* the errors a unit of work of the scraper can fail with
ClassifiedErrors ==
    { MkKindError("http", st, HttpMessage(st)) : st \in HttpStatuses }
        \cup { MkKindError("timeout", 0, GotoTimeoutMessage(ms)) : ms \in PageTimeouts }
        \cup { MkKindError("timeout", 0, MsgTimeout),
               MkKindError("timeout", 0, MsgEtimedout),
               MkKindError("reset", 0, MsgReset),
               MkKindError("malformed-url", 0, MsgInvalidUrl) }

\* the limiter is built and nothing else has happened
LimiterIdle ==
    /\ Construct(NoOptions)
    /\ CallsIdle

InitClassify ==
    /\ LimiterIdle
    /\ RobotsIdle
    /\ ScrapeIdle
    /\ probe \in ClassifiedErrors
    /\ verdict = "none"

\* one call of shouldRetry(probe)
Classify ==
    /\ verdict = "none"
    /\ verdict' = IF shouldRetry(probe) THEN "retryable" ELSE "fatal"
    /\ UNCHANGED <<config, counters, now, callVars, robotsVars, scrapeVars, probe>>

NextClassify == Classify

SpecClassify == InitClassify /\ [][NextClassify]_vars

\* the classification the description gives, by what the error is
RetryableKind(error) ==
    \/ error.kind = "reset"
    \/ error.kind = "timeout"
    \/ error.kind = "http" /\ (error.status = 429 \/ error.status >= 500)

\* C11: an error is classified retryable exactly when it is a connection
\* reset, a timeout, HTTP 429 or HTTP >= 500; every other error is fatal.
C11_Classification ==
    verdict # "none" => (verdict = "retryable" <=> RetryableKind(probe))


(***************************************************************************)
(* RobotsChecker.  The cache is a Map from a domain (protocol//hostname)   *)
(* to the parser built from the robots.txt of that domain.  An isAllowed   *)
(* call yields once, at the robots.txt request of a cache miss.            *)
(***************************************************************************)
NullDomain == [null |-> TRUE]

\* RobotsChecker.getDomain: `${protocol}//${hostname}`, or null when new URL throws
robotsGetDomain(u) ==
    IF u.valid THEN [protocol |-> u.protocol, hostname |-> u.hostname]
    ELSE NullDomain

\* the URLs handed to isAllowed; the well-formed ones name the server the
\* robots.txt of their domain is requested from (no explicit port)
PolicyUrls ==
    { u \in Urls : u.valid => u.port = "" } \cup { MkUrl("https:", "a.com", "", "/y") }

\* the body of a robots.txt: text with Disallow rules for user agent *, or
\* a body that is not text (the parser cannot split it into lines)
\* (Crawl-delay in seconds, 0 when the text has none)
RulesDelay(disallow, seconds) ==
    [kind |-> "rules", disallow |-> disallow, crawlDelay |-> seconds]
Rules(disallow) == RulesDelay(disallow, 0)
Unparseable == [kind |-> "unparseable"]
EmptyBody == Rules({})
Bodies == { EmptyBody, Rules({"/x"}), Rules({"/"}), Unparseable }

\* what axios.get settles with: a response, or a failure without one
HttpResponse(status, body) == [kind |-> "http", status |-> status, body |-> body]
NetworkError == [kind |-> "network-error"]
FetchTimeout == [kind |-> "timeout"]
Responses ==
    { HttpResponse(st, b) : st \in {200, 403, 404, 503}, b \in Bodies }
        \cup { NetworkError, FetchTimeout }

\* validateStatus: (status) => status < 500 ; axios rejects otherwise
AxiosRejects(resp) == resp.kind # "http" \/ ~(resp.status < 500)

\* fetchRobotsTxt that takes the body of every response axios accepts
fetchRobotsTxtStatusBlind(resp) ==
    IF AxiosRejects(resp) THEN EmptyBody
    ELSE resp.body

\* fetchRobotsTxt whose catch yields a robots.txt that disallows everything
fetchRobotsTxtDenyOnError(resp) ==
    IF AxiosRejects(resp) THEN Rules({"/"})
    ELSE IF resp.status = 200 THEN resp.body
    ELSE EmptyBody

\* RobotsChecker.fetchRobotsTxt: the robots.txt content the answer yields
fetchRobotsTxt(resp) ==
    IF AxiosRejects(resp) THEN EmptyBody
    ELSE IF resp.status = 200 THEN resp.body
    ELSE EmptyBody

\* robotsParser(`${domain}/robots.txt`, robotsTxt) throws on a body it cannot read
ParserThrows(robotsTxt) == robotsTxt.kind = "unparseable"

robotsParser(domain, robotsTxt) ==
    [domain |-> domain, disallow |-> robotsTxt.disallow, crawlDelay |-> robotsTxt.crawlDelay]

\* RobotsChecker.getCrawlDelay for a domain whose parser is cached: the
\* crawl delay in milliseconds, 0 when the policy has none
getCrawlDelay(domain) ==
    IF robotsCache[domain].crawlDelay # 0 THEN robotsCache[domain].crawlDelay * 1000 ELSE 0

\* a Disallow rule matches the paths it is a prefix of (the paths of
\* PolicyUrls are "/", "/x" and "/y")
RuleMatches(rule, path) == rule = "/" \/ rule = path

\* parser.isAllowed(url, '*')
parserIsAllowed(parser, u) ==
    ~ \E rule \in parser.disallow : RuleMatches(rule, u.path)

BoolStr(b) == IF b THEN "true" ELSE "false"

\* isAllowed resolves for call l with the value v
Resolve(l, v) ==
    /\ lpc' = [lpc EXCEPT ![l] = "done"]
    /\ lverdict' = [lverdict EXCEPT ![l] = v]

\* getRobotsParser that consults no cache
LookupAlwaysFetches(l, u) ==
    /\ fetchCount' = MapSet(fetchCount, robotsGetDomain(u), GetOr(fetchCount, robotsGetDomain(u), 0) + 1)
    /\ lpc' = [lpc EXCEPT ![l] = "fetching"]
    /\ UNCHANGED <<robotsCache, lverdict>>

\* isAllowed(u) after getDomain gave a domain: getRobotsParser up to its await
Lookup(l, u) ==
    IF MapHas(robotsCache, robotsGetDomain(u))
    THEN /\ Resolve(l, BoolStr(parserIsAllowed(robotsCache[robotsGetDomain(u)], u)))
         /\ UNCHANGED <<robotsCache, fetchCount>>
    ELSE /\ fetchCount' = MapSet(fetchCount, robotsGetDomain(u), GetOr(fetchCount, robotsGetDomain(u), 0) + 1)
         /\ lpc' = [lpc EXCEPT ![l] = "fetching"]
         /\ UNCHANGED <<robotsCache, lverdict>>

\* an isAllowed that lets a URL without a domain through
IsAllowedStartAllowNull(l, u) ==
    /\ lpc[l] = "idle"
    /\ \A k \in Lookups : k < l => lpc[k] # "idle"
    /\ lurl' = [lurl EXCEPT ![l] = u]
    /\ IF robotsGetDomain(u) = NullDomain
       THEN /\ Resolve(l, "true")
            /\ UNCHANGED <<robotsCache, fetchCount>>
       ELSE Lookup(l, u)
    /\ UNCHANGED <<lresp, clears, scrapeVars, classifyVars, config, counters, now, callVars>>

\* a caller invokes isAllowed(u): the call runs up to its first await
IsAllowedStart(l, u) ==
    /\ lpc[l] = "idle"
    /\ \A k \in Lookups : k < l => lpc[k] # "idle"
    /\ lurl' = [lurl EXCEPT ![l] = u]
    /\ IF robotsGetDomain(u) = NullDomain
       THEN /\ Resolve(l, "false")
            /\ UNCHANGED <<robotsCache, fetchCount>>
       ELSE Lookup(l, u)
    /\ UNCHANGED <<lresp, clears, scrapeVars, classifyVars, config, counters, now, callVars>>

\* Settle whose catch answers true
SettleAllowOnError(l, robotsTxt) ==
    IF ParserThrows(robotsTxt)
    THEN /\ Resolve(l, "true")
         /\ UNCHANGED robotsCache
    ELSE /\ robotsCache' = MapSet(robotsCache, robotsGetDomain(lurl[l]),
                                  robotsParser(robotsGetDomain(lurl[l]), robotsTxt))
         /\ Resolve(l, BoolStr(parserIsAllowed(robotsParser(robotsGetDomain(lurl[l]), robotsTxt), lurl[l])))

\* Settle that keeps the entry another call cached in the meantime
SettleFirstWriterWins(l, robotsTxt) ==
    IF ParserThrows(robotsTxt)
    THEN /\ Resolve(l, "false")
         /\ UNCHANGED robotsCache
    ELSE /\ robotsCache' =
                IF MapHas(robotsCache, robotsGetDomain(lurl[l]))
                THEN robotsCache
                ELSE MapSet(robotsCache, robotsGetDomain(lurl[l]),
                            robotsParser(robotsGetDomain(lurl[l]), robotsTxt))
         /\ Resolve(l, BoolStr(parserIsAllowed(robotsParser(robotsGetDomain(lurl[l]), robotsTxt), lurl[l])))

\* the robots.txt content is in hand: build the parser, cache it, query it;
\* an error thrown on the way is caught by isAllowed, which answers false
Settle(l, robotsTxt) ==
    IF ParserThrows(robotsTxt)
    THEN /\ Resolve(l, "false")
         /\ UNCHANGED robotsCache
    ELSE /\ robotsCache' = MapSet(robotsCache, robotsGetDomain(lurl[l]),
                                  robotsParser(robotsGetDomain(lurl[l]), robotsTxt))
         /\ Resolve(l, BoolStr(parserIsAllowed(robotsParser(robotsGetDomain(lurl[l]), robotsTxt), lurl[l])))

\* the robots.txt request of call l settles with resp
FetchSettles(l, resp) ==
    /\ lpc[l] = "fetching"
    /\ lresp' = [lresp EXCEPT ![l] = resp]
    /\ Settle(l, fetchRobotsTxt(resp))
    /\ UNCHANGED <<fetchCount, lurl, clears, scrapeVars, classifyVars, config, counters, now, callVars>>

MsgDisallowed ==
    <<"D", "i", "s", "a", "l", "l", "o", "w", "e", "d", " ", "b", "y", " ",
      "r", "o", "b", "o", "t", "s", ".", "t", "x", "t">>

\* a checkUrl that gives the reason whatever isAllowed answered
checkUrlAlwaysReason(l) ==
    [allowed |-> lverdict[l] = "true", reason |-> MsgDisallowed]

\* a checkUrl that gives no reason
checkUrlNoReason(l) ==
    [allowed |-> lverdict[l] = "true", reason |-> <<>>]

\* RobotsChecker.checkUrl, once isAllowed resolved for call l
checkUrl(l) ==
    [allowed |-> lverdict[l] = "true",
     reason |-> IF lverdict[l] = "true" THEN <<>> ELSE MsgDisallowed]

InitRobots ==
    /\ LimiterIdle
    /\ RobotsIdle
    /\ ScrapeIdle
    /\ ClassifyIdle

NextRobots ==
    \/ \E l \in Lookups, u \in PolicyUrls : IsAllowedStart(l, u)
    \/ \E l \in Lookups, resp \in Responses : FetchSettles(l, resp)

SpecRobots == InitRobots /\ [][NextRobots]_vars

\* number of clearCache calls made in a run
MaxClears == 1

\* RobotsChecker.getCacheStats
getCacheStats ==
    [cachedDomains |-> Cardinality(DOMAIN robotsCache), domains |-> DOMAIN robotsCache]

\* a clearCache that leaves the cache as it is
ClearCacheKeeps ==
    /\ clears < MaxClears
    /\ clears' = clears + 1
    /\ UNCHANGED <<robotsCache, fetchCount, lpc, lurl, lresp, lverdict, scrapeVars, classifyVars, config, counters, now, callVars>>

\* RobotsChecker.clearCache: this.robotsCache.clear()
ClearCache ==
    /\ clears < MaxClears
    /\ clears' = clears + 1
    /\ robotsCache' = EmptyMap
    /\ UNCHANGED <<fetchCount, lpc, lurl, lresp, lverdict, scrapeVars, classifyVars, config, counters, now, callVars>>

NextRobotsClear ==
    \/ \E l \in Lookups, u \in PolicyUrls : IsAllowedStart(l, u)
    \/ \E l \in Lookups, resp \in Responses : FetchSettles(l, resp)
    \/ ClearCache

\* the robots checker with callers that also clear the cache
SpecRobotsClear == InitRobots /\ [][NextRobotsClear]_vars

\* every robots.txt request settles and every call the callers make is made
SpecRobotsClearFair == SpecRobotsClear /\ WF_vars(NextRobotsClear)


(***************************************************************************)
(* Claims about the robots.txt policy cache.                               *)
(***************************************************************************)
\* call l is the step of an isAllowed call from its await to its return
Settling(l) == lpc[l] = "fetching" /\ lpc'[l] = "done"

\* call l starts in this step
Starting(l) == lpc[l] = "idle" /\ lpc'[l] # "idle"

\* the parser construction of call l threw
ConstructionThrew(l) ==
    lresp[l] # NoResponse /\ ParserThrows(fetchRobotsTxt(lresp[l]))

\* some isAllowed call for domain d has returned
CompletedFor(d) ==
    \E k \in Lookups : lpc[k] = "done" /\ robotsGetDomain(lurl[k]) = d

\* some isAllowed call for domain d has returned after obtaining a parser
ObtainedParserFor(d) ==
    \E k \in Lookups :
        /\ lpc[k] = "done"
        /\ robotsGetDomain(lurl[k]) = d
        /\ d # NullDomain
        /\ ~ConstructionThrew(k)

\* C17 as stated: once a call of isAllowed for a domain has returned, a
\* later call for the same domain issues no robots.txt fetch.
C17_SecondCallNoFetch ==
    [][ \A d \in DOMAIN fetchCount' :
            CompletedFor(d) => GetOr(fetchCount, d, 0) = fetchCount'[d] ]_vars

\* C17: once a call of isAllowed for a domain has returned after obtaining a
\* parser, a later call for the same domain issues no robots.txt fetch and
\* is answered, without yielding, by the cached parser; a call whose parser
\* construction threw caches nothing.
C17_CachedPolicyServes ==
    [][ /\ \A d \in DOMAIN fetchCount' :
              ObtainedParserFor(d) => GetOr(fetchCount, d, 0) = fetchCount'[d]
        /\ \A l \in Lookups :
              (Starting(l) /\ ObtainedParserFor(robotsGetDomain(lurl'[l]))) =>
                  /\ MapHas(robotsCache, robotsGetDomain(lurl'[l]))
                  /\ lpc'[l] = "done"
                  /\ lverdict'[l] =
                        BoolStr(parserIsAllowed(robotsCache[robotsGetDomain(lurl'[l])], lurl'[l]))
                  /\ robotsCache' = robotsCache
        /\ \A l \in Lookups :
              (Settling(l) /\ ParserThrows(fetchRobotsTxt(lresp'[l]))) =>
                  robotsCache' = robotsCache ]_vars

\* two calls for one domain have returned, the first after one fetch, the
\* second from the cache
C17_Witness ==
    /\ lpc[1] = "done" /\ lpc[2] = "done"
    /\ lurl[1].valid
    /\ robotsGetDomain(lurl[1]) = robotsGetDomain(lurl[2])
    /\ lresp[1] # NoResponse /\ lresp[2] = NoResponse
    /\ fetchCount[robotsGetDomain(lurl[1])] = 1

Is4xx(resp) == resp.kind = "http" /\ resp.status >= 400 /\ resp.status < 500

\* the parser cached for domain d allows every URL of d
AllowsAll(cache, d) ==
    /\ MapHas(cache, d)
    /\ cache[d].disallow = {}
    /\ \A u \in PolicyUrls : robotsGetDomain(u) = d => parserIsAllowed(cache[d], u)

MkEnv(c, p, r, m, b) ==
    [CONCURRENCY |-> c, PER_DOMAIN_CONCURRENCY |-> p, REQUEST_DELAY_MS |-> r,
     MAX_RETRIES |-> m, EXPONENTIAL_BACKOFF_BASE |-> b]

\* Scraper.constructor: the options handed to new RateLimiter
LimiterOptions(options, env) ==
    MkOptions(OptOr(options, "concurrency", OptOr(env, "CONCURRENCY", DefaultConcurrency)),
              OptOr(env, "PER_DOMAIN_CONCURRENCY", DefaultPerDomainConcurrency),
              OptOr(options, "requestDelay", OptOr(env, "REQUEST_DELAY_MS", DefaultRequestDelay)),
              OptOr(env, "MAX_RETRIES", DefaultMaxRetries),
              OptOr(env, "EXPONENTIAL_BACKOFF_BASE", DefaultBackoffBase))

\* the scrapers constructed: [options, env]
ScraperSetups ==
    { [options |-> [concurrency |-> 1, requestDelay |-> 100], env |-> MkEnv(0, 0, 0, 1, 0)],
      [options |-> NoOptions, env |-> MkEnv(0, 0, 200, 1, 0)] }

\* the url lists scrapeUrls is called with
UrlLists ==
    {<<>>} \cup UNION { [1..n -> PolicyUrls] : n \in 1..NumCalls }

DataNull == "null"
ExtractedData == "data"

MkOutcome(u, status, reason, data) ==
    [url |-> u, status |-> status, reason |-> reason, data |-> data]

\* `Anti-bot detected: ${antiBotCheck.type}` for the type 'reCAPTCHA'
MsgAntiBot ==
    <<"A", "n", "t", "i", "-", "b", "o", "t", " ", "d", "e", "t", "e", "c", "t", "e", "d", ":", " ",
      "r", "e", "C", "A", "P", "T", "C", "H", "A">>

\* the errors thrown inside the try block of the page function
PageErrors ==
    { MkError(HttpMessage(503)), MkError(GotoTimeoutMessage(DefaultTimeout)) }

\* the outcome the catch block of a scrape returns for error e
ErrorOutcome(u, e) == MkOutcome(u, "error", e.message, DataNull)

\* what the page function resolves with
PageResults(u) ==
    { MkOutcome(u, "success", <<>>, ExtractedData),
      MkOutcome(u, "skipped", MsgAntiBot, DataNull) }
        \cup { ErrorOutcome(u, e) : e \in PageErrors }

MsgTargetClosed ==
    <<"T", "a", "r", "g", "e", "t", " ", "c", "l", "o", "s", "e", "d">>

\* what context.newPage() or page.close() reject with, outside the try block
PageRejections == { MkError(MsgTargetClosed), MkError(MsgReset) }

\* what the robots.txt requests of a scrape settle with
ScrapeResponses ==
    { HttpResponse(200, RulesDelay({"/x"}, 1)), HttpResponse(200, Unparseable),
      HttpResponse(404, Rules({"/"})), HttpResponse(503, Rules({"/"})),
      NetworkError, FetchTimeout }

InitScrape ==
    /\ \E s \in ScraperSetups : Construct(LimiterOptions(s.options, s.env))
    /\ CallsIdle
    /\ RobotsIdle
    /\ ClassifyIdle
    /\ urls \in UrlLists
    /\ results = <<>>
    /\ idx = 1
    /\ stats = NoStats

\* a loop that works on every url of the list at once
IteratingAll(i) == i <= Len(urls)

\* the for loop is at urls[i]
Iterating(i) == idx = i /\ i <= Len(urls)

\* scrapeUrl(urls[i]) up to the first await of robotsChecker.checkUrl
ScrapeCheck(i) ==
    /\ Iterating(i)
    /\ IsAllowedStart(i, urls[i])

\* the robots.txt request made for urls[i] settles
ScrapeFetchSettles(i, resp) ==
    /\ Iterating(i)
    /\ FetchSettles(i, resp)

\* results.push at the front of the array
PushFront(o) ==
    /\ results' = <<o>> \o results
    /\ idx' = idx + 1
    /\ UNCHANGED <<urls, stats>>

\* results.push(result), and the loop moves on
Push(o) ==
    /\ results' = Append(results, o)
    /\ idx' = idx + 1
    /\ UNCHANGED <<urls, stats>>

\* !robotsCheck.allowed: scrapeUrl returns the skipped outcome
ScrapeSkip(i) ==
    /\ Iterating(i)
    /\ lpc[i] = "done"
    /\ ~checkUrl(i).allowed
    /\ pc[i] = "idle"
    /\ Push(MkOutcome(urls[i], "skipped", checkUrl(i).reason, DataNull))
    /\ UNCHANGED <<robotsVars, classifyVars, config, counters, now, callVars>>

\* the call of execute made whatever checkUrl answered
ExecuteGuardNone(i) == lpc[i] = "done"

\* robotsCheck.allowed: scrapeUrl goes on to rateLimiter.execute
ExecuteGuard(i) == lpc[i] = "done" /\ checkUrl(i).allowed

ScrapeExecute(i) ==
    /\ Iterating(i)
    /\ ExecuteGuard(i)
    /\ Enter(i, urls[i])

\* the page function returns an outcome (from its try or its catch block)
PageReturns(i) ==
    /\ Iterating(i)
    /\ \E o \in PageResults(urls[i]) : FnReturnWith(i, o)

\* the page function rejects
PageRejects(i, e) ==
    /\ Iterating(i)
    /\ FnThrow(i, e)

\* a scrapeUrl in which the error of execute is not caught: scrapeUrls has
\* nothing to push for the iteration and stops
ScrapeCollectUncaught(i) ==
    /\ Iterating(i)
    /\ pc[i] = "done"
    /\ outcome[i].kind = "returned"
    /\ Push(outcome[i].value)
    /\ UNCHANGED <<robotsVars, classifyVars, config, counters, now, callVars>>

\* execute settled: scrapeUrl returns its result, or the error outcome of
\* its catch block, and scrapeUrls pushes it
ScrapeCollect(i) ==
    /\ Iterating(i)
    /\ pc[i] = "done"
    /\ Push(IF outcome[i].kind = "returned" THEN outcome[i].value
            ELSE ErrorOutcome(urls[i], outcome[i].error))
    /\ UNCHANGED <<robotsVars, classifyVars, config, counters, now, callVars>>

NextScrape ==
    \/ \E i \in Calls : ScrapeCheck(i)
    \/ \E i \in Calls, resp \in ScrapeResponses : ScrapeFetchSettles(i, resp)
    \/ \E i \in Calls : ScrapeSkip(i)
    \/ \E i \in Calls : ScrapeExecute(i)
    \/ \E c \in Calls : WakeGlobal(c)
    \/ \E c \in Calls : WakeDomain(c)
    \/ \E c \in Calls : WakeDelay(c)
    \/ \E c \in Calls : Admit(c)
    \/ \E i \in Calls : PageReturns(i)
    \/ \E i \in Calls, e \in PageRejections : PageRejects(i, e)
    \/ \E c \in Calls : RetryWake(c)
    \/ \E i \in Calls : ScrapeCollect(i)
    \/ TickPoll
    \/ TickJump

SpecScrape == InitScrape /\ [][NextScrape]_vars

\* RateLimiter.getStats
getStats ==
    [globalActive |-> globalActive,
     domainsTracked |-> Cardinality(DOMAIN domainActive),
     domainBreakdown |-> domainActive]

\* a Scraper.getStats that resets the limiter's counters as it reads them
ScraperGetStatsResetting ==
    /\ stats' = [rateLimiter |-> getStats, robotsCache |-> getCacheStats]
    /\ globalActive' = 0
    /\ domainActive' = EmptyMap
    /\ UNCHANGED <<urls, results, idx, lastRequestTime, robotsVars, classifyVars, config, now, callVars>>

\* Scraper.getStats, called by the scraper's owner between two steps
ScraperGetStats ==
    /\ stats' = [rateLimiter |-> getStats, robotsCache |-> getCacheStats]
    /\ UNCHANGED <<urls, results, idx, robotsVars, classifyVars, config, counters, now, callVars>>

\* a scraper scrapes two URLs while its owner reads the statistics
InitStats ==
    /\ \E s \in ScraperSetups : Construct(LimiterOptions(s.options, s.env))
    /\ CallsIdle
    /\ RobotsIdle
    /\ ClassifyIdle
    /\ urls \in { l \in [1..NumCalls -> PolicyUrls] :
                    l[1] = MkUrl("https:", "a.com", "", "/x") /\ \A n \in 1..NumCalls : l[n].valid }
    /\ results = <<>>
    /\ idx = 1
    /\ stats = NoStats

NextStats ==
    \/ NextScrape
    \/ ScraperGetStats

SpecStats == InitStats /\ [][NextStats]_vars

\* the for loop has ended: scrapeUrls returns results
scrapeUrlsReturned == idx = Len(urls) + 1


(***************************************************************************)
(* Claims about scrapeUrl and scrapeUrls.                                  *)
(***************************************************************************)
\* the iterations of the for loop that have ended
Processed == { i \in Calls : i < idx /\ i <= Len(urls) }

\* C12: a page fetch of an allowed URL that fails with a retryable error is
\* retried up to maxRetries times before the URL gets an error outcome: an
\* error outcome whose reason is the message of a retryable error is only
\* recorded after maxRetries + 1 invocations of the page function.
C12_RetryBeforeErrorOutcome ==
    \A i \in Processed :
        (/\ i <= Len(results)
         /\ results[i].status = "error"
         /\ shouldRetry(MkError(results[i].reason)))
            => fnCalls[i] = maxRetries + 1

\* C13: for a URL checkUrl reports as not allowed, scrapeUrl returns a
\* skipped outcome without calling execute or the page function: while the
\* loop is at that URL globalActive, the per-domain counts and
\* lastRequestTime do not change.
C13_DeniedShortCircuit ==
    [][ \A i \in Calls :
            /\ (Iterating(i) /\ pc[i] = "idle" /\ pc'[i] = "idle") => counters' = counters
            /\ (lpc'[i] = "done" /\ lverdict'[i] # "true") =>
                    (pc'[i] = "idle" /\ fnCalls'[i] = 0)
            /\ (Iterating(i) /\ idx' = i + 1 /\ lverdict[i] # "true") =>
                    /\ results' = Append(results,
                                         MkOutcome(urls[i], "skipped", MsgDisallowed, DataNull))
                    /\ counters' = counters ]_vars

\* a URL whose robots.txt was fetched and disallows it got its skipped
\* outcome, and the limiter was never touched
C13_Witness ==
    /\ idx = 2
    /\ Len(results) = 1
    /\ results[1].status = "skipped"
    /\ lresp[1] = HttpResponse(200, RulesDelay({"/x"}, 1))
    /\ pc[1] = "idle"
    /\ globalActive = 0
    /\ domainActive = EmptyMap
    /\ lastRequestTime = EmptyMap

\* C14: scrapeUrls returns exactly one outcome per input URL, in input
\* order: every ended iteration pushed one outcome, results[i] is the
\* outcome of urls[i], and the returned array is as long as urls.
C14_OneOutcomePerUrlInOrder ==
    /\ idx <= Len(urls) + 1
    /\ Len(results) = idx - 1
    /\ \A i \in 1..Len(results) : results[i].url = urls[i]
    /\ scrapeUrlsReturned => Len(results) = Len(urls)

\* a run over two different URLs has returned; the first failed after a
\* retry, the second succeeded
C14_Witness ==
    /\ scrapeUrlsReturned
    /\ Len(urls) = 2
    /\ urls[1] # urls[2]
    /\ results[1].status = "error"
    /\ fnCalls[1] = 2
    /\ results[2].status = "success"

\* the event loop runs a callback that is ready
SpecScrapeFair == SpecScrape /\ WF_vars(NextScrape)

\* the processing of urls[i] ended in an error
Failed(i) ==
    \/ outcome[i].kind = "thrown"
    \/ outcome[i].kind = "returned" /\ outcome[i].value.status = "error"

\* C15: one URL's failure never aborts the batch: an error while processing
\* urls[i] is recorded as the error outcome of urls[i]; however execute
\* settled, the loop can push an outcome and move on; and scrapeUrls goes
\* on through the later URLs and returns.
C15_FailureNeverAborts ==
    /\ [](\A i \in Calls :
            (Iterating(i) /\ pc[i] = "done") => ENABLED ScrapeCollect(i))
    /\ [](\A i \in Processed :
            Failed(i) => (/\ i <= Len(results)
                          /\ results[i].status = "error"
                          /\ results[i].url = urls[i]))
    /\ <>scrapeUrlsReturned

\* execute threw for the first URL, whose error outcome was recorded, and
\* the second URL was scraped
C15_Witness ==
    /\ scrapeUrlsReturned
    /\ Len(urls) = 2
    /\ outcome[1].kind = "thrown"
    /\ results[1] = ErrorOutcome(urls[1], outcome[1].error)
    /\ results[2].status = "success"

\* C16: every outcome has status success, error or skipped; a success
\* outcome carries data and an empty reason; a skipped or error outcome
\* carries null data and a non-empty reason.
C16_OutcomeShape ==
    \A i \in 1..Len(results) :
        /\ results[i].status \in {"success", "error", "skipped"}
        /\ results[i].status = "success" =>
                (results[i].data # DataNull /\ results[i].reason = <<>>)
        /\ results[i].status # "success" =>
                (results[i].data = DataNull /\ results[i].reason # <<>>)

\* one outcome of each status has been produced
C16_Witness ==
    \E i, j \in 1..Len(results) :
        /\ results[i].status = "success"
        /\ results[j] = MkOutcome(urls[j], "skipped", MsgDisallowed, DataNull)

InFlight == { l \in Lookups : lpc[l] = "fetching" }

\* C21: clearCache empties the cache: right after it getCacheStats reports
\* 0 cached domains, and a lookup that starts on the empty cache (the next
\* lookup when none was in flight) fetches robots.txt afresh; no step other
\* than clearCache removes a cached entry.
C21_ClearCacheEmpties ==
    [][ /\ clears' # clears =>
              (getCacheStats'.cachedDomains = 0 /\ robotsCache' = EmptyMap)
        /\ clears' = clears => DOMAIN robotsCache \subseteq DOMAIN robotsCache'
        /\ \A l \in Lookups :
              (/\ Starting(l)
               /\ lurl'[l].valid
               /\ robotsCache = EmptyMap) =>
                    /\ lpc'[l] = "fetching"
                    /\ fetchCount'[robotsGetDomain(lurl'[l])]
                          = GetOr(fetchCount, robotsGetDomain(lurl'[l]), 0) + 1 ]_vars

\* a policy was cached for a domain, the cache was cleared with no lookup
\* in flight, and a lookup is now fetching robots.txt of that domain again
C21_Witness ==
    /\ clears = 1
    /\ lpc[1] = "done" /\ lurl[1].valid /\ ~ConstructionThrew(1)
    /\ lresp[1] # NoResponse
    /\ robotsCache = EmptyMap
    /\ getCacheStats.cachedDomains = 0
    /\ lpc[2] = "fetching"
    /\ robotsGetDomain(lurl[2]) = robotsGetDomain(lurl[1])
    /\ fetchCount[robotsGetDomain(lurl[1])] = 2
    /\ lpc[3] = "idle"

MsgDisallowedByPolicy ==
    <<"D", "i", "s", "a", "l", "l", "o", "w", "e", "d", " ", "b", "y", " ",
      "p", "o", "l", "i", "c", "y">>

\* C22 as stated: checkUrl returns allowed equal to what isAllowed resolved
\* with, and the reason "Disallowed by policy" when not allowed, the empty
\* string when allowed.
C22_ReasonDisallowedByPolicy ==
    \A l \in Lookups :
        lpc[l] = "done" =>
            /\ checkUrl(l).allowed = (lverdict[l] = "true")
            /\ checkUrl(l).reason =
                  IF checkUrl(l).allowed THEN <<>> ELSE MsgDisallowedByPolicy

\* C22: checkUrl returns allowed equal to what isAllowed resolved with, and
\* the reason 'Disallowed by robots.txt' when not allowed, the empty string
\* when allowed: the reason is empty if and only if the URL is allowed.
C22_ReasonDisallowedByRobots ==
    \A l \in Lookups :
        lpc[l] = "done" =>
            /\ checkUrl(l).allowed = (lverdict[l] = "true")
            /\ checkUrl(l).reason =
                  IF checkUrl(l).allowed THEN <<>> ELSE MsgDisallowed
            /\ (checkUrl(l).reason = <<>>) <=> checkUrl(l).allowed

\* one call was answered allowed and another disallowed by a rule
C22_Witness ==
    \E l, k \in Lookups :
        /\ lpc[l] = "done" /\ lverdict[l] = "true" /\ checkUrl(l).reason = <<>>
        /\ lpc[k] = "done" /\ lverdict[k] = "false" /\ lurl[k].valid
        /\ ~ConstructionThrew(k)
        /\ checkUrl(k) = [allowed |-> FALSE, reason |-> MsgDisallowed]


(***************************************************************************)
(* Claims about the configuration of the limiter.                          *)
(***************************************************************************)
\* option k was given to the constructor with the value v
Configured(k, v) == k \in DOMAIN configured /\ configured[k] = v

\* a global or per-domain limit of 0 or below was configured
BadLimit ==
    \E k \in {"concurrency", "perDomainConcurrency"} :
        k \in DOMAIN configured /\ configured[k] <= 0

\* C23: constructing the limiter with a global or per-domain limit <= 0
\* fails: there is no limiter for execute to be called on, none whose limit
\* differs from the configured one and none on which a call polls for
\* admission.
C23_BadLimitRejected ==
    BadLimit =>
        /\ \A c \in Calls : pc[c] = "idle"
        /\ Configured("concurrency", globalConcurrency)
        /\ Configured("perDomainConcurrency", perDomainConcurrency)

\* C26: with maxRetries configured as 0 the unit of work is attempted once:
\* no backoff wait and no second invocation of fn.
C26_ZeroRetriesOneAttempt ==
    Configured("maxRetries", 0) =>
        \A c \in Calls : fnCalls[c] <= 1 /\ waits[c] = <<>> /\ pc[c] # "backoff"

\* C27: with the minimum spacing configured as 0 admission never waits for
\* spacing.
C27_ZeroSpacingNoSleep ==
    Configured("requestDelay", 0) =>
        \A c \in Calls : pc[c] # "delaySleep"

\* C24: when the robots policy of a domain has a crawl-delay longer than
\* the configured spacing, a request of that domain is admitted only when
\* at least the crawl-delay has passed since the domain's last admission.
C24_CrawlDelayOverrides ==
    [][ \A c \in Calls :
            (/\ Admitting(c)
             /\ MapHas(robotsCache, robotsGetDomain(url[c]))
             /\ getCrawlDelay(robotsGetDomain(url[c])) > requestDelay
             /\ MapHas(lastRequestTime, getDomain(url[c]))) =>
                now - lastRequestTime[getDomain(url[c])]
                    >= getCrawlDelay(robotsGetDomain(url[c])) ]_vars

\* C25: scrapeUrls dispatches the pipelines of all input URLs concurrently:
\* with a global limit of two or more, while the fetch of one URL executes
\* the pipeline of every input URL has been started (so that two fetches
\* can execute at once).
C25_ConcurrentDispatch ==
    \A i \in Calls :
        (/\ globalConcurrency >= 2
         /\ Iterating(i)
         /\ pc[i] = "fn") =>
            \A j \in 1..Len(urls) : lpc[j] # "idle"

\* the origin of a URL: scheme, host and port
Origin(u) ==
    IF u.valid THEN <<u.protocol, u.hostname, u.port>> ELSE <<"unknown">>

HoldersOfOrigin(origin) == { c \in Holders : Origin(url[c]) = origin }

\* C28: throttle state is keyed by the origin scheme+host(+port): the active
\* count kept for the URL of a call that holds a slot counts the holders of
\* that URL's origin only, so URLs that differ in scheme or port have
\* independent counts.
C28_OriginKeyed ==
    \A c \in Holders :
        GetOr(domainActive, getDomain(url[c]), 0)
            = Cardinality(HoldersOfOrigin(Origin(url[c])))

\* the isAllowed calls made so far for domain d
LookupsOf(d) ==
    { k \in Lookups : lpc[k] # "idle" /\ robotsGetDomain(lurl[k]) = d }

\* isAllowed was called for domain d and every such call has returned
AllComplete(d) ==
    LookupsOf(d) # {} /\ \A k \in LookupsOf(d) : lpc[k] = "done"

\* the domains of the well-formed URLs
PolicyDomains == { robotsGetDomain(u) : u \in PolicyUrls } \ {NullDomain}

\* call l fetched robots.txt itself and built a parser from the answer
BuiltParser(l) == lresp[l] # NoResponse /\ ~ConstructionThrew(l)

\* C29 as stated: after all concurrent lookups of a domain have completed,
\* every caller has obtained a policy and the cache holds the entry of the
\* domain.
C29_EveryCallerObtains ==
    \A d \in PolicyDomains :
        AllComplete(d) =>
            /\ \A k \in LookupsOf(d) : ~ConstructionThrew(k)
            /\ MapHas(robotsCache, d)

\* C29: for any interleaving of lookups of one domain on a cache miss, every
\* caller whose robots.txt body parses obtains the policy of its own answer;
\* a caller that settles overwrites the entry of the domain (last writer
\* wins); after all of them completed the cache holds the entry of the
\* domain exactly when some caller built a parser; and a lookup that starts
\* while the entry is cached issues no fetch and leaves the cache as it is.
C29_RaceLastWriterWins ==
    /\ [](\A d \in PolicyDomains :
            AllComplete(d) =>
                /\ MapHas(robotsCache, d) <=> \E k \in LookupsOf(d) : BuiltParser(k)
                /\ \A k \in LookupsOf(d) :
                      BuiltParser(k) =>
                          lverdict[k] = BoolStr(parserIsAllowed(
                              robotsParser(d, fetchRobotsTxt(lresp[k])), lurl[k])))
    /\ [][ /\ \A l \in Lookups :
                (Settling(l) /\ ~ParserThrows(fetchRobotsTxt(lresp'[l]))) =>
                    /\ MapHas(robotsCache', robotsGetDomain(lurl[l]))
                    /\ robotsCache'[robotsGetDomain(lurl[l])] =
                          robotsParser(robotsGetDomain(lurl[l]), fetchRobotsTxt(lresp'[l]))
                    /\ DOMAIN robotsCache' = DOMAIN robotsCache \cup {robotsGetDomain(lurl[l])}
           /\ \A l \in Lookups :
                (Starting(l) /\ MapHas(robotsCache, robotsGetDomain(lurl'[l]))) =>
                    /\ fetchCount' = fetchCount
                    /\ robotsCache' = robotsCache
                    /\ lpc'[l] = "done" ]_vars

\* two lookups of one domain raced on a miss and got different policies,
\* the cache holds the policy of the second, and a third lookup was served
\* from the cache without a fetch
C29_Witness ==
    /\ \A l \in Lookups : lpc[l] = "done" /\ lurl[l].valid
    /\ robotsGetDomain(lurl[1]) = robotsGetDomain(lurl[2])
    /\ robotsGetDomain(lurl[1]) = robotsGetDomain(lurl[3])
    /\ MapHas(fetchCount, robotsGetDomain(lurl[1]))
    /\ MapHas(robotsCache, robotsGetDomain(lurl[1]))
    /\ fetchCount[robotsGetDomain(lurl[1])] = 2
    /\ BuiltParser(1) /\ BuiltParser(2)
    /\ lresp[3] = NoResponse
    /\ fetchRobotsTxt(lresp[1]) # fetchRobotsTxt(lresp[2])
    /\ robotsCache[robotsGetDomain(lurl[1])] =
          robotsParser(robotsGetDomain(lurl[1]), fetchRobotsTxt(lresp[2]))

\* this step is a call of Scraper.getStats
StatsTaken == stats' # stats

\* C30: getStats is a read-only snapshot: what it returns reports the
\* current globalActive, the active count of every domain and the number
\* of cached domains, and the call leaves the counters, lastRequestTime and
\* the policy cache unchanged.
C30_StatsReadOnly ==
    [][ StatsTaken =>
            /\ stats'.rateLimiter.globalActive = globalActive
            /\ DOMAIN stats'.rateLimiter.domainBreakdown = DOMAIN domainActive
            /\ \A d \in DOMAIN domainActive :
                  stats'.rateLimiter.domainBreakdown[d] = domainActive[d]
            /\ stats'.rateLimiter.domainsTracked = Cardinality(DOMAIN domainActive)
            /\ stats'.robotsCache.cachedDomains = Cardinality(DOMAIN robotsCache)
            /\ stats'.robotsCache.domains = DOMAIN robotsCache
            /\ UNCHANGED <<globalActive, domainActive, lastRequestTime, robotsCache>> ]_vars

\* statistics were read while a fetch was executing with one policy cached,
\* and the fetch is still counted afterwards
C30_Witness ==
    /\ stats # NoStats
    /\ stats.rateLimiter.globalActive = 1
    /\ stats.rateLimiter.domainsTracked = 1
    /\ stats.robotsCache.cachedDomains = 1
    /\ globalActive = 1
    /\ \E c \in Calls : pc[c] = "fn"

(***************************************************************************)
(* Claims about the slot of a call across its retries.                     *)
(***************************************************************************)
\* the calls whose fn is executing
Executing == { c \in Calls : pc[c] = "fn" }

ExecutingOf(domain) == { c \in Executing : getDomain(url[c]) = domain }

\* C31: a slot is held only while fn executes: while a call waits out its
\* backoff delay, globalActive and the active count of its domain count the
\* calls whose fn is executing and nothing else.
C31_SlotOnlyWhileExecuting ==
    \A c \in Calls :
        pc[c] = "backoff" =>
            /\ globalActive = Cardinality(Executing)
            /\ GetOr(domainActive, getDomain(url[c]), 0)
                  = Cardinality(ExecutingOf(getDomain(url[c])))

\* call c leaves its backoff sleep in this step: its retry starts
Retrying(c) == pc[c] = "backoff" /\ pc'[c] # "backoff"

\* C32: the slot of a failed attempt is released before its retry is
\* admitted: the step that starts the retry takes the call's 1 off
\* globalActive and off its domain's count and admits nothing, and when the
\* retry is admitted the counters count the other calls only, so that one
\* call never contributes more than 1.
C32_ReleaseBeforeRetryAdmission ==
    [][ \A c \in Calls :
            /\ Retrying(c) =>
                  /\ pc'[c] \in {"waitGlobal", "waitDomain", "delaySleep", "admit"}
                  /\ globalActive' = globalActive - 1
                  /\ domainActive'[getDomain(url[c])]
                        = domainActive[getDomain(url[c])] - 1
            /\ (Admitting(c) /\ attempt[c] >= 1) =>
                  /\ globalActive = Cardinality(Holders \ {c})
                  /\ GetOr(domainActive, getDomain(url[c]), 0)
                        = Cardinality(HoldersOf(getDomain(url[c])) \ {c})
                  /\ globalActive' = Cardinality(Holders \ {c}) + 1 ]_vars

\* a retry is executing and the limiter counts it once
C32_Witness ==
    \E c \in Calls :
        /\ pc[c] = "fn"
        /\ attempt[c] >= 1
        /\ fnFails[c] >= 1
        /\ globalActive = 1
        /\ domainActive[getDomain(url[c])] = 1

\* fn of call c is invoked in this step
Invoking(c) == fnCalls'[c] = fnCalls[c] + 1

\* C33: every retry goes through admission again: the step that starts the
\* retry evaluates the global limit, the per-domain limit and the spacing
\* since the domain's last request, in this order, and the call waits
\* where the first of them fails; a retry leaves a wait loop only when the
\* loop's condition is false at that moment; fn is invoked again only by
\* the admission step, which sets lastRequestTime of the domain anew.
C33_RetryReadmitted ==
    [][ \A c \in Calls :
          LET domain == getDomain(url[c]) IN
            /\ Retrying(c) =>
                  /\ globalLimitReached => pc'[c] = "waitGlobal"
                  /\ (~globalLimitReached /\ ~canRequestDomain(domain)) =>
                        pc'[c] = "waitDomain"
                  /\ (~globalLimitReached /\ canRequestDomain(domain) /\ delayNeeded(domain)) =>
                        /\ pc'[c] = "delaySleep"
                        /\ due'[c] = lastRequestTime[domain] + requestDelay
                  /\ (~globalLimitReached /\ canRequestDomain(domain) /\ ~delayNeeded(domain)) =>
                        pc'[c] = "admit"
            /\ (attempt[c] >= 1 /\ pc[c] = "waitGlobal" /\ pc'[c] # "waitGlobal") =>
                  ~globalLimitReached
            /\ (attempt[c] >= 1 /\ pc[c] \in {"waitGlobal", "waitDomain"}
                  /\ pc'[c] \notin {"waitGlobal", "waitDomain"}) =>
                  canRequestDomain(domain)
            /\ (attempt[c] >= 1 /\ pc[c] \in {"waitGlobal", "waitDomain"} /\ pc'[c] = "admit") =>
                  ~delayNeeded(domain)
            /\ (attempt[c] >= 1 /\ pc[c] = "delaySleep" /\ pc'[c] # "delaySleep") =>
                  /\ pc'[c] = "admit"
                  /\ now >= due[c]
            /\ (attempt'[c] >= 1 /\ Invoking(c)) =>
                  /\ Admitting(c)
                  /\ MapHas(lastRequestTime', domain)
                  /\ lastRequestTime'[domain] = now ]_vars

\* a retry was admitted after its backoff and stamped the domain's last
\* request time
C33_Witness ==
    \E c \in Calls :
        /\ pc[c] = "fn"
        /\ attempt[c] = 1
        /\ fnCalls[c] = 2
        /\ Len(waits[c]) = 1
        /\ MapHas(lastRequestTime, getDomain(url[c]))
        /\ lastRequestTime[getDomain(url[c])] = now
        /\ now >= Epoch + waits[c][1]

\* call c waits in a loop whose condition is true now
Blocked(c) ==
    \/ pc[c] = "waitGlobal" /\ globalLimitReached
    \/ pc[c] = "waitDomain" /\ ~canRequestDomain(getDomain(url[c]))

\* C34: with limits of at least 1 a moment comes when every execute call
\* of the run has returned or thrown; a call blocked in a wait loop is blocked
\* by the slot of a call that executes or backs off and will release it,
\* never by a slot of its own failed attempt.
C34_NoDeadlock ==
    /\ <>(\A c \in Calls : pc[c] = "done" /\ outcome[c] # Pending)
    /\ [](\A c \in Calls :
            Blocked(c) =>
                /\ globalConcurrency >= 1 /\ perDomainConcurrency >= 1
                /\ c \notin Holders
                /\ Holders # {})

\* a retry under a global limit of 1 waited in the wait loop and the call
\* returned fn's value in the end
C34_Witness ==
    \E c \in Calls :
        /\ globalConcurrency = 1
        /\ pc[c] = "done"
        /\ fnFails[c] >= 1
        /\ outcome[c] = Returned(Payload)
        /\ globalActive = 0

\* the pipeline of urls[j] has been started
Dispatched(j) == lpc[j] # "idle" \/ pc[j] # "idle"

\* the execute calls that are between their entry and their return
InExecute == { c \in Calls : pc[c] \notin {"idle", "done"} }

C36_NoDomainSkipped ==
    /\ [][ \A l \in Lookups :
            (Starting(l) /\ robotsGetDomain(lurl'[l]) = NullDomain) =>
                /\ lpc'[l] = "done"
                /\ lverdict'[l] = "false"
                /\ fetchCount' = fetchCount
                /\ robotsCache' = robotsCache
                /\ lresp' = lresp ]_vars
    /\ [](\A i \in 1..Len(urls) :
            robotsGetDomain(urls[i]) = NullDomain =>
                /\ pc[i] = "idle"
                /\ fnCalls[i] = 0
                /\ lpc[i] # "fetching"
                /\ lresp[i] = NoResponse
                /\ i <= Len(results) =>
                      results[i] = MkOutcome(urls[i], "skipped", MsgDisallowed, DataNull))

\* a malformed URL was skipped and the limiter and the cache were never
\* touched, while the URL after it was scraped
C36_Witness ==
    /\ Len(urls) = 2 /\ Len(results) = 2
    /\ ~urls[1].valid
    /\ results[1].status = "skipped"
    /\ lverdict[1] = "false"
    /\ fetchCount = EmptyMap \/ DOMAIN fetchCount = {robotsGetDomain(urls[2])}
    /\ urls[2].valid
    /\ results[2].status = "success"

\* every isAllowed call of the run has been made
AllStarted == \A l \in Lookups : lpc[l] # "idle"

\* C37: after clearCache() the cache never contains a policy whose
\* robots.txt request was started before the clearCache() call: when every
\* lookup of the run was started before the cache is cleared (so that every
\* request still to settle is older than the clearing), the cache stays
\* empty from the clearing on.
C37_ClearedStaysClear ==
    []((clears = 0 /\ AllStarted) => [](clears >= 1 => robotsCache = EmptyMap))

====
